---- MODULE Spec2Model ----
(***************************************************************************)
(* Model of compiler/compile.go: the CompiledTemplatesProgram (namespace   *)
(* of identifiers and imports, literal table, generated functions), the    *)
(* compile request (Compile / CompileAndWrite) and the init routine the    *)
(* generated artifact runs against the registry.                           *)
(*                                                                         *)
(* A Go string is a sequence of one-character strings, so that the string  *)
(* operations of the code (concatenation, filepath.Base, strings.Replace,  *)
(* snaker.SnakeToCamel, sort.Strings) are computed and not assumed.        *)
(***************************************************************************)
EXTENDS Integers, Sequences, FiniteSets, TLC

VARIABLES
    \* CompiledTemplatesProgram (compile.go:21-27)
    varName, imports, idents, builtinTexts, funcs,
    \* observation of the calls made on the program
    last, firstAlias, interned, ncalls,
    \* one compile request (CompileAndWrite, compile.go:45-111)
    config, outPkg, tpls, pc, ti, fi, ni, err, written, run, artifact1, processed,
    \* the generated init routine running against the registry
    reg, locals, ip, attachErrs

progVars == <<varName, imports, idents, builtinTexts, funcs>>
obsVars  == <<last, firstAlias, interned, ncalls>>
reqVars  == <<config, outPkg, tpls, pc, ti, fi, ni, err, written, run, artifact1, processed>>
runVars  == <<reg, locals, ip, attachErrs>>
vars     == <<progVars, obsVars, reqVars, runVars>>

----------------------------------------------------------------------------
(* Strings *)

ASCII == <<" ", "!", "\"", "-", ".", "/", "0", "1", "2", "3", "4", "5", "6", "7", "8", "9", "A", "B", "C", "D", "E", "F", "G", "H", "I", "J", "K", "L", "M", "N", "O", "P", "Q", "R", "S", "T", "U", "V", "W", "X", "Y", "Z", "_", "a", "b", "c", "d", "e", "f", "g", "h", "i", "j", "k", "l", "m", "n", "o", "p", "q", "r", "s", "t", "u", "v", "w", "x", "y", "z">>

Ord(ch) == CHOOSE i \in 1..Len(ASCII) : ASCII[i] = ch

Range(s) == { s[i] : i \in 1..Len(s) }

\* byte-wise s < t, the order of sort.Strings
RECURSIVE StrLess(_, _)
StrLess(s, t) ==
    IF t = <<>> THEN FALSE
    ELSE IF s = <<>> THEN TRUE
    ELSE IF s[1] = t[1] THEN StrLess(Tail(s), Tail(t))
    ELSE Ord(s[1]) < Ord(t[1])

\* sort.Strings of a set of distinct strings
RECURSIVE SortStrings(_)
SortStrings(S) ==
    IF S = {} THEN <<>>
    ELSE LET m == CHOOSE x \in S : \A y \in S \ {x} : StrLess(x, y)
         IN  <<m>> \o SortStrings(S \ {m})

UpperLetters == <<"A", "B", "C", "D", "E", "F", "G", "H", "I", "J", "K", "L", "M", "N", "O", "P", "Q", "R", "S", "T", "U", "V", "W", "X", "Y", "Z">>
LowerLetters == <<"a", "b", "c", "d", "e", "f", "g", "h", "i", "j", "k", "l", "m", "n", "o", "p", "q", "r", "s", "t", "u", "v", "w", "x", "y", "z">>

ToUpperChar(ch) ==
    IF \E i \in 1..Len(LowerLetters) : LowerLetters[i] = ch
    THEN UpperLetters[CHOOSE i \in 1..Len(LowerLetters) : LowerLetters[i] = ch]
    ELSE ch

ToLowerChar(ch) ==
    IF \E i \in 1..Len(UpperLetters) : UpperLetters[i] = ch
    THEN LowerLetters[CHOOSE i \in 1..Len(UpperLetters) : UpperLetters[i] = ch]
    ELSE ch

ToUpper(s) == [i \in 1..Len(s) |-> ToUpperChar(s[i])]

Digits == <<"0", "1", "2", "3", "4", "5", "6", "7", "8", "9">>

\* fmt's %v of a non-negative int
RECURSIVE Itoa(_)
Itoa(n) == IF n < 10 THEN <<Digits[n + 1]>>
           ELSE Itoa(n \div 10) \o <<Digits[(n % 10) + 1]>>

\* fmt's %q of a string without characters that need escaping
Quote(s) == <<"\"">> \o s \o <<"\"">>

\* strings.Split(s, sep) for a one-character separator
RECURSIVE SplitAcc(_, _, _)
SplitAcc(s, sep, cur) ==
    IF s = <<>> THEN <<cur>>
    ELSE IF s[1] = sep THEN <<cur>> \o SplitAcc(Tail(s), sep, <<>>)
    ELSE SplitAcc(Tail(s), sep, Append(cur, s[1]))

Split(s, sep) == SplitAcc(s, sep, <<>>)

\* filepath.Base
RECURSIVE StripTrailingSlashes(_)
StripTrailingSlashes(p) ==
    IF Len(p) > 0 /\ p[Len(p)] = "/" THEN StripTrailingSlashes(SubSeq(p, 1, Len(p) - 1))
    ELSE p

RECURSIVE LastElement(_)
LastElement(p) ==
    IF \E i \in 1..Len(p) : p[i] = "/"
    THEN LastElement(SubSeq(p, (CHOOSE i \in 1..Len(p) : p[i] = "/") + 1, Len(p)))
    ELSE p

Base(path) ==
    IF path = <<>> THEN <<".">>
    ELSE LET e == LastElement(StripTrailingSlashes(path))
         IN  IF e = <<>> THEN <<"/">> ELSE e

----------------------------------------------------------------------------
(* Name sanitising and case normalisation (compile.go:466-483) *)

RECURSIVE replaceAll(_, _, _)
replaceAll(old, removals, replacement) ==
    IF old = <<>> THEN <<>>
    ELSE (IF <<old[1]>> \in removals THEN replacement ELSE <<old[1]>>)
         \o replaceAll(Tail(old), removals, replacement)

cleanTplName(name) == replaceAll(name, {<<".">>}, <<"_">>)

commonInitialisms ==
    {<<"A", "P", "I">>, <<"A", "S", "C", "I", "I">>, <<"C", "P", "U">>, <<"C", "S", "S">>,
     <<"D", "N", "S">>, <<"E", "O", "F">>, <<"G", "U", "I", "D">>, <<"H", "T", "M", "L">>,
     <<"H", "T", "T", "P">>, <<"H", "T", "T", "P", "S">>, <<"I", "D">>, <<"I", "P">>,
     <<"J", "S", "O", "N">>, <<"L", "H", "S">>, <<"Q", "P", "S">>, <<"R", "A", "M">>,
     <<"R", "H", "S">>, <<"R", "P", "C">>, <<"S", "L", "A">>, <<"S", "M", "T", "P">>,
     <<"S", "S", "H">>, <<"T", "L", "S">>, <<"T", "T", "L">>, <<"U", "I">>, <<"U", "I", "D">>,
     <<"U", "U", "I", "D">>, <<"U", "R", "I">>, <<"U", "R", "L">>, <<"U", "T", "F", "8">>,
     <<"V", "M">>, <<"X", "M", "L">>}

\* snaker.SnakeToCamel: split on "_", upper-case an initialism, else
\* capitalise the first rune of every non-empty word
RECURSIVE CamelWords(_)
CamelWords(words) ==
    IF words = <<>> THEN <<>>
    ELSE LET word == Head(words)
             w == IF ToUpper(word) \in commonInitialisms THEN ToUpper(word)
                  ELSE IF Len(word) > 0
                       THEN <<ToUpperChar(word[1])>> \o Tail(word)
                       ELSE <<>>
         IN  w \o CamelWords(Tail(words))

SnakeToCamel(s) == CamelWords(Split(s, "_"))

snakeToCamel(s) ==
    LET c == SnakeToCamel(s)
    IN  IF Len(c) > 0 THEN <<ToLowerChar(c[1])>> \o Tail(c) ELSE c

----------------------------------------------------------------------------
(* Namespace manager (compile.go:133-182) *)

NilName == <<>>     \* ast.ImportSpec.Name == nil

isCollidingIdent(imps, ids, ident) ==
    \/ \E i \in 1..Len(imps) : imps[i].Name # NilName /\ imps[i].Name = ident
    \/ \E i \in 1..Len(ids) : ids[i] = ident

\* addImport with the alias of a known path always taken from the path
addImport_baseOnSeen(imps, ids, pkgpath) ==
    LET qpath == Quote(pkgpath)
        bpath == Base(pkgpath)
    IN  IF \E i \in 1..Len(imps) : imps[i].Path = qpath
        THEN [imports |-> imps, idents |-> ids, ret |-> bpath]
        ELSE IF isCollidingIdent(imps, ids, bpath)
             THEN LET a == <<"a", "l", "i", "a", "s">> \o bpath
                  IN  [imports |-> Append(imps, [Path |-> qpath, Name |-> a]),
                       idents |-> Append(ids, a), ret |-> a]
             ELSE [imports |-> Append(imps, [Path |-> qpath, Name |-> NilName]),
                   idents |-> Append(ids, bpath), ret |-> bpath]

\* the result is the new imports, the new idents and the returned alias
addImport(imps, ids, pkgpath) ==
    LET qpath == Quote(pkgpath)
        bpath == Base(pkgpath)
    IN  IF \E i \in 1..Len(imps) : imps[i].Path = qpath
        THEN LET i == CHOOSE k \in 1..Len(imps) :
                          /\ imps[k].Path = qpath
                          /\ \A j \in 1..(k - 1) : imps[j].Path # qpath
             IN  [imports |-> imps, idents |-> ids,
                  ret |-> IF imps[i].Name = NilName THEN bpath ELSE imps[i].Name]
        ELSE LET imps1 == Append(imps, [Path |-> qpath, Name |-> NilName])
             IN  IF isCollidingIdent(imps1, ids, bpath)
                 THEN LET a == <<"a", "l", "i", "a", "s">> \o bpath
                      IN  [imports |-> Append(imps, [Path |-> qpath, Name |-> a]),
                           idents |-> Append(ids, a), ret |-> a]
                 ELSE [imports |-> imps1, idents |-> Append(ids, bpath), ret |-> bpath]

RECURSIVE makeFuncNameLoop(_, _, _, _, _)
makeFuncNameLoop(imps, ids, baseName, x, i) ==
    IF isCollidingIdent(imps, ids, x)
    THEN makeFuncNameLoop(imps, ids, baseName, <<"f", "n">> \o Itoa(i) \o baseName, i + 1)
    ELSE x

\* makeFuncName with the counter starting at 1
makeFuncName_fromOne(imps, ids, baseName) ==
    LET x == makeFuncNameLoop(imps, ids, baseName, baseName, 1)
    IN  [idents |-> Append(ids, x), ret |-> x]

makeFuncName(imps, ids, baseName) ==
    LET x == makeFuncNameLoop(imps, ids, baseName, baseName, 0)
    IN  [idents |-> Append(ids, x), ret |-> x]

----------------------------------------------------------------------------
(* Literal table (compile.go:196-202) *)

\* addBuiltintText without the lookup of a known text
addBuiltintText_noLookup(bt, text) ==
    LET n == <<"b", "u", "i", "l", "t", "i", "n">> \o Itoa(Cardinality(DOMAIN bt))
    IN  [builtinTexts |-> (text :> n) @@ bt, ret |-> n]

addBuiltintText(bt, text) ==
    IF text \in DOMAIN bt
    THEN [builtinTexts |-> bt, ret |-> bt[text]]
    ELSE LET n == <<"b", "u", "i", "l", "t", "i", "n">> \o Itoa(Cardinality(DOMAIN bt))
         IN  [builtinTexts |-> (text :> n) @@ bt, ret |-> n]

----------------------------------------------------------------------------
(* Construction (compile.go:30-42) *)

PathIo == <<"i", "o">>
PathParse == <<"g", "i", "t", "h", "u", "b", ".", "c", "o", "m", "/", "m", "h", "-", "c", "b", "o", "n", "/", "t", "e", "m", "p", "l", "a", "t", "e", "-", "c", "o", "m", "p", "i", "l", "e", "r", "/", "s", "t", "d", "/", "t", "e", "x", "t", "/", "t", "e", "m", "p", "l", "a", "t", "e", "/", "p", "a", "r", "s", "e">>

ReservedIdents(vn) ==
    << <<"t">>, <<"w">>, <<"d", "a", "t", "a">>, <<"i", "n", "d", "a", "t", "a">>, vn >>

NewCompiledTemplatesProgram(vn) ==
    LET a == addImport(<<>>, ReservedIdents(vn), PathIo)
        b == addImport(a.imports, a.idents, PathParse)
    IN  [varName |-> vn, imports |-> b.imports, idents |-> b.idents,
         builtinTexts |-> <<>>, funcs |-> <<>>]

----------------------------------------------------------------------------
(* Bounds and the inputs of the model *)

MaxCalls == 3      \* calls made on one program (Spec)

VarNames == { <<"t", "p", "l", "s">>, <<"f", "o", "o">> }

PkgPaths ==
    { PathIo,
      <<"a", "/", "f", "o", "o">>, <<"b", "/", "f", "o", "o">>, <<"c", "/", "f", "o", "o">>,
      <<"x", "/", "d", "a", "t", "a">> }

BaseNames ==
    { <<"t">>, <<"f", "n", "x">>, <<"f", "n", "0", "t">>, <<"f", "o", "o">> }

Texts == { <<" ">>, <<"h", "i">>, <<"H", "i">> }

NoErr == "nil"
NoArtifact ==
    [written |-> FALSE, pkg |-> <<>>, imports |-> <<>>, builtins |-> <<>>,
     init |-> <<>>, funcs |-> <<>>]

----------------------------------------------------------------------------
(* Calls on one program: the node converter and convertTemplates use the   *)
(* program through these three methods.                                    *)

Unquote(q) == SubSeq(q, 2, Len(q) - 1)

Seen(imps, pkgpath) == \E i \in 1..Len(imps) : imps[i].Path = Quote(pkgpath)

AddImport(pkgpath) ==
    /\ pc = "idle"
    /\ ncalls < MaxCalls
    /\ LET r == addImport(imports, idents, pkgpath)
       IN  /\ imports' = r.imports
           /\ idents' = r.idents
           /\ last' = [op |-> "addImport", arg |-> pkgpath, ret |-> r.ret,
                       imports |-> imports, idents |-> idents]
           /\ firstAlias' = IF pkgpath \in DOMAIN firstAlias THEN firstAlias
                            ELSE (pkgpath :> r.ret) @@ firstAlias
    /\ ncalls' = ncalls + 1
    /\ UNCHANGED <<varName, builtinTexts, funcs, interned, reqVars, runVars>>

MakeFuncName(baseName) ==
    /\ pc = "idle"
    /\ ncalls < MaxCalls
    /\ LET r == makeFuncName(imports, idents, baseName)
       IN  /\ idents' = r.idents
           /\ last' = [op |-> "makeFuncName", arg |-> baseName, ret |-> r.ret,
                       imports |-> imports, idents |-> idents]
    /\ ncalls' = ncalls + 1
    /\ UNCHANGED <<varName, imports, builtinTexts, funcs, firstAlias, interned,
                   reqVars, runVars>>

AddBuiltintText(text) ==
    /\ pc = "idle"
    /\ ncalls < MaxCalls
    /\ LET r == addBuiltintText(builtinTexts, text)
       IN  /\ builtinTexts' = r.builtinTexts
           /\ interned' = interned \cup {<<text, r.ret>>}
           /\ last' = [op |-> "addBuiltintText", arg |-> text, ret |-> r.ret,
                       imports |-> imports, idents |-> idents]
    /\ ncalls' = ncalls + 1
    /\ UNCHANGED <<varName, imports, idents, funcs, firstAlias, reqVars, runVars>>

NoCall == [op |-> "new", arg |-> <<>>, ret |-> <<>>, imports |-> <<>>, idents |-> <<>>]

InitProgram(vn) ==
    LET c == NewCompiledTemplatesProgram(vn)
    IN  /\ varName = c.varName
        /\ imports = c.imports
        /\ idents = c.idents
        /\ builtinTexts = c.builtinTexts
        /\ funcs = c.funcs
        /\ last = NoCall
        /\ firstAlias = (PathIo :> Base(PathIo)) @@ (PathParse :> Base(PathParse))
        /\ interned = {}
        /\ ncalls = 0

InitIdle ==
    /\ config = <<>>
    /\ outPkg = <<>>
    /\ tpls = <<>>
    /\ pc = "idle"
    /\ ti = 1 /\ fi = 1 /\ ni = 1
    /\ err = NoErr
    /\ written = NoArtifact
    /\ run = 1
    /\ artifact1 = NoArtifact
    /\ processed = <<>>
    /\ reg = <<>>
    /\ locals = <<>>
    /\ ip = 1
    /\ attachErrs = {}

Init ==
    /\ \E vn \in VarNames : InitProgram(vn)
    /\ InitIdle

Next ==
    \/ \E p \in PkgPaths : AddImport(p)
    \/ \E b \in BaseNames : MakeFuncName(b)
    \/ \E t \in Texts : AddBuiltintText(t)

Spec == Init /\ [][Next]_vars

----------------------------------------------------------------------------
(* Work items (compile.go:266-321) *)

\* one template source as the file system and the parser hold it: its path
\* and the named trees its content declares (those whose Tree is not nil);
\* a tree is the sequence of the literal texts of its text nodes
SrcCamel == [path  |-> <<"t", "/", "a", "B">>,
             trees |-> (<<"a", "B">> :> << <<" ">> >>)]
SrcSnake == [path  |-> <<"t", "/", "a", "_", "b">>,
             trees |-> (<<"a", "_", "b">> :> << <<" ">> >>)]
SrcNested == [path  |-> <<"t", "/", "n", ".", "t">>,
              trees |-> (<<"n", ".", "t">> :> << <<"h", "i">> >>)
                        @@ (<<"e">> :> << <<" ">> >>)
                        @@ (<<"d">> :> <<>>)]
SrcNoMain == [path  |-> <<"t", "/", "x">>,
              trees |-> (<<"e">> :> << <<"h", "i">> >>)]

PatA == <<"t", "/", "a", "*">>
PatN == <<"t", "/", "n", "*">>
PatX == <<"t", "/", "x">>
PatNX == <<"t", "/", "[", "n", "x", "]", "*">>
PatZ == <<"t", "/", "z", "*">>
PatBad == <<"[">>

\* Glob reporting a pattern without matches as an error
Glob_noMatchIsError(pattern) ==
    CASE pattern = PatBad -> [err |-> "DiscoveryError", matches |-> <<>>]
      [] pattern = PatA -> [err |-> NoErr, matches |-> <<SrcCamel, SrcSnake>>]
      [] pattern = PatN -> [err |-> NoErr, matches |-> <<SrcNested>>]
      [] pattern = PatX -> [err |-> NoErr, matches |-> <<SrcNoMain>>]
      [] pattern = PatNX -> [err |-> NoErr, matches |-> <<SrcNested, SrcNoMain>>]
      [] OTHER -> [err |-> "DiscoveryError", matches |-> <<>>]

\* filepath.Glob on the file system above: the matches in lexical order; a
\* malformed pattern is an error, a pattern without meta characters that
\* names no file (the empty pattern of an inline entry) matches nothing
Glob(pattern) ==
    CASE pattern = PatBad -> [err |-> "DiscoveryError", matches |-> <<>>]
      [] pattern = PatA -> [err |-> NoErr, matches |-> <<SrcCamel, SrcSnake>>]
      [] pattern = PatN -> [err |-> NoErr, matches |-> <<SrcNested>>]
      [] pattern = PatX -> [err |-> NoErr, matches |-> <<SrcNoMain>>]
      [] pattern = PatNX -> [err |-> NoErr, matches |-> <<SrcNested, SrcNoMain>>]
      [] OTHER -> [err |-> NoErr, matches |-> <<>>]

makeTemplateToCompileNew(templateConf) == [conf |-> templateConf, files |-> <<>>]

convertConfigToTemplatesToCompile(conf) ==
    [i \in 1..Len(conf.Templates) |-> makeTemplateToCompileNew(conf.Templates[i])]

\* the orders in which a Go map with key set S can be ranged over
MapOrders(S) ==
    { o \in [1..Cardinality(S) -> S] : \A i, j \in 1..Cardinality(S) : i # j => o[i] # o[j] }

RECURSIVE SelectSeq2(_, _)
SelectSeq2(s, unwanted) ==
    IF s = <<>> THEN <<>>
    ELSE (IF Head(s) = unwanted THEN <<>> ELSE <<Head(s)>>) \o SelectSeq2(Tail(s), unwanted)

\* the loop of makeTemplateFileToCompileFromFile over the tree map, ranged
\* over in the order treeOrder
makeTemplateFileToCompileFromFile(src, treeOrder) ==
    LET mainName == Base(src.path)
    IN  [name |-> mainName,
         tplsTree |-> src.trees,
         tplsFunc |-> [treeName \in DOMAIN src.trees |->
                         IF treeName # mainName
                         THEN cleanTplName(<<"f", "n">> \o mainName \o <<"_">> \o treeName)
                         ELSE cleanTplName(<<"f", "n">> \o mainName)],
         definedTemplates |-> SelectSeq2(treeOrder, mainName)]

names(f) == SortStrings(DOMAIN f.tplsTree)

\* the next (template configuration, file, name) at or after (i, j, k) in
\* the nested loops of convertTemplates
RECURSIVE NormPos(_, _, _, _)
NormPos(T, i, j, k) ==
    IF i > Len(T) THEN <<i, 1, 1>>
    ELSE IF j > Len(T[i].files) THEN NormPos(T, i + 1, 1, 1)
    ELSE IF k > Len(names(T[i].files[j])) THEN NormPos(T, i, j + 1, 1)
    ELSE <<i, j, k>>

----------------------------------------------------------------------------
(* Node conversion: the calls it makes on the program *)

getDataQualifier(imps, ids, dataConf) ==
    LET r == addImport(imps, ids, dataConf.PkgPath)
    IN  [imports |-> r.imports, idents |-> r.idents,
         ret |-> (IF dataConf.IsPtr THEN <<"*">> ELSE <<>>)
                 \o r.ret \o <<".">> \o dataConf.DataTypeName]

createFunc(fns, name) == Append(fns, name)

RECURSIVE InternAll(_, _)
InternAll(bt, texts) ==
    IF texts = <<>> THEN bt
    ELSE InternAll(addBuiltintText(bt, Head(texts)).builtinTexts, Tail(texts))

\* a successful convertTplTree: the function is declared, the data type is
\* qualified and every literal of the tree is interned
convertTplTree(imps, ids, bt, fns, funcname, tree, dataConf) ==
    LET q == getDataQualifier(imps, ids, dataConf)
    IN  [imports |-> q.imports, idents |-> q.idents,
         builtinTexts |-> InternAll(bt, tree),
         funcs |-> createFunc(fns, funcname)]

----------------------------------------------------------------------------
(* Output (compile.go:204-264) *)

RECURSIVE Concat(_)
Concat(ss) == IF ss = <<>> THEN <<>> ELSE Head(ss) \o Concat(Tail(ss))

Stmt(op, var, name, arg) == [op |-> op, var |-> var, name |-> name, arg |-> arg]

\* AttachStmts storing the nested entry instead of the attached one
AttachStmts_setsNested(f, i, e) ==
    LET varX == <<"t", "p", "l">> \o Itoa(i) \o <<"X">> \o Itoa(e)
        varY == <<"t", "p", "l">> \o Itoa(i) \o <<"Y">> \o Itoa(e)
    IN  << Stmt("MustGet", varX, f.name, <<>>),
           Stmt("MustGet", varY, f.definedTemplates[e + 1], <<>>),
           Stmt("Compiled", varX, <<>>, varY),
           Stmt("Set", varY, f.name, <<>>) >>

AttachStmts(f, i, e) ==
    LET varX == <<"t", "p", "l">> \o Itoa(i) \o <<"X">> \o Itoa(e)
        varY == <<"t", "p", "l">> \o Itoa(i) \o <<"Y">> \o Itoa(e)
    IN  << Stmt("MustGet", varX, f.name, <<>>),
           Stmt("MustGet", varY, f.definedTemplates[e + 1], <<>>),
           Stmt("Compiled", varX, <<>>, varY),
           Stmt("Set", varX, f.name, <<>>) >>

generateInitFunc(T) ==
    LET adds ==
            Concat([i \in 1..Len(T) |->
              Concat([j \in 1..Len(T[i].files) |->
                LET f == T[i].files[j]
                    nm == names(f)
                IN  [k \in 1..Len(nm) |-> Stmt("Add", <<>>, nm[k], f.tplsFunc[nm[k]])]])])
        attach ==
            Concat([i \in 1..Len(T) |->
              Concat([j \in 1..Len(T[i].files) |->
                LET f == T[i].files[j]
                IN  Concat([e \in 1..Len(f.definedTemplates) |->
                              AttachStmts(f, j - 1, e - 1)])])])
    IN  adds \o attach

generateImportStmt(imps) ==
    [i \in 1..Len(imps) |->
        (IF imps[i].Name # NilName THEN imps[i].Name \o <<" ">> ELSE <<>>) \o imps[i].Path]

\* the declarations in the order mapOrder in which the literal map is ranged over
generateBuiltins(bt, mapOrder) ==
    [i \in 1..Len(mapOrder) |-> [name |-> bt[mapOrder[i]], text |-> mapOrder[i]]]

generateProgram(outpkg, imps, bt, fns, T, mapOrder) ==
    [written |-> TRUE,
     pkg |-> outpkg,
     imports |-> generateImportStmt(imps),
     builtins |-> generateBuiltins(bt, mapOrder),
     init |-> generateInitFunc(T),
     funcs |-> fns]

----------------------------------------------------------------------------
(* The compile requests of the model *)

MaxConfs == 2      \* TemplateConfiguration entries of one Configuration

DataConf == [PkgPath |-> <<"x", "/", "d", "a", "t", "a">>,
             DataTypeName |-> <<"T">>, IsPtr |-> FALSE]

GlobConf(pattern) ==
    [TemplatesPath |-> pattern, TemplateName |-> <<>>, TemplateContent |-> <<>>,
     DataConfiguration |-> DataConf]

\* the inline entry of the README: a main template that defines "e"
InlineConf ==
    [TemplatesPath |-> <<>>, TemplateName |-> <<"n", "f">>,
     TemplateContent |-> (<<"n", "f">> :> << <<"h", "i">> >>) @@ (<<"e">> :> << <<" ">> >>),
     DataConfiguration |-> DataConf]

TemplateConfs ==
    { GlobConf(p) : p \in {PatA, PatN, PatX, PatNX, PatZ, PatBad} } \cup { InlineConf }

Configs ==
    { [OutPkg |-> <<>>, Templates |-> ts] :
        ts \in UNION { [1..n -> TemplateConfs] : n \in 1..MaxConfs } }

CompileVarName == <<"t", "p", "l", "s">>

Event(step, e) == [step |-> step, ok |-> (e = NoErr), err |-> e]

----------------------------------------------------------------------------
(* CompileAndWrite (compile.go:45-122) *)

\* lookup is the result of LookupPackageName
updateOutPkg(conf, lookup) ==
    IF conf.OutPkg = <<>>
    THEN IF lookup.err # NoErr
         THEN [err |-> "PackageLookupError", OutPkg |-> conf.OutPkg]
         ELSE [err |-> NoErr, OutPkg |-> lookup.pkgName]
    ELSE [err |-> NoErr, OutPkg |-> conf.OutPkg]

LookupResults ==
    { [err |-> NoErr, pkgName |-> <<"m", "a", "i", "n">>],
      [err |-> "NotExist", pkgName |-> <<>>] }

\* an error that is recorded without returning
Fail_noReturn(step, e) ==
    /\ err' = e
    /\ UNCHANGED pc
    /\ processed' = Append(processed, Event(step, e))

Fail(step, e) ==
    /\ err' = e
    /\ pc' = "done"
    /\ processed' = Append(processed, Event(step, e))

\* Compile up to the call of getTemplatesToCompile
CompileStart ==
    /\ pc = "start"
    /\ \E lookup \in LookupResults :
         LET r == updateOutPkg(config, lookup)
         IN  IF r.err # NoErr
             THEN /\ Fail("updateOutPkg", r.err)
                  /\ UNCHANGED <<outPkg, tpls>>
             ELSE /\ outPkg' = r.OutPkg
                  /\ tpls' = convertConfigToTemplatesToCompile(config)
                  /\ pc' = "prepare"
                  /\ processed' = Append(processed, Event("updateOutPkg", NoErr))
                  /\ UNCHANGED err
    /\ UNCHANGED <<progVars, obsVars, config, ti, fi, ni, written, run, artifact1, runVars>>

\* prepare: the glob of entry ti fails
PrepareGlobFail ==
    /\ pc = "prepare"
    /\ Glob(tpls[ti].conf.TemplatesPath).err # NoErr
    /\ Fail("glob", Glob(tpls[ti].conf.TemplatesPath).err)
    /\ UNCHANGED <<progVars, obsVars, config, outPkg, tpls, ti, fi, ni, written, run,
                   artifact1, runVars>>

\* prepare: one iteration of the loop over the matched paths of entry ti
PrepareFile ==
    /\ pc = "prepare"
    /\ LET g == Glob(tpls[ti].conf.TemplatesPath)
       IN  /\ g.err = NoErr
           /\ fi <= Len(g.matches)
           /\ \E e \in {NoErr, "ReadError", "ParseError"} :
                IF e # NoErr
                THEN /\ Fail("load", e)
                     /\ UNCHANGED <<tpls, fi>>
                ELSE /\ \E treeOrder \in MapOrders(DOMAIN g.matches[fi].trees) :
                          tpls' = [tpls EXCEPT ![ti].files =
                                     Append(@, makeTemplateFileToCompileFromFile(
                                                   g.matches[fi], treeOrder))]
                     /\ fi' = fi + 1
                     /\ processed' = Append(processed, Event("load", NoErr))
                     /\ UNCHANGED <<err, pc>>
    /\ UNCHANGED <<progVars, obsVars, config, outPkg, ti, ni, written, run, artifact1,
                   runVars>>

\* prepare of entry ti returns nil: the next entry, or convertTemplates
PrepareNext ==
    /\ pc = "prepare"
    /\ LET g == Glob(tpls[ti].conf.TemplatesPath)
       IN  /\ g.err = NoErr
           /\ fi > Len(g.matches)
    /\ IF ti < Len(tpls)
       THEN /\ ti' = ti + 1
            /\ fi' = 1
            /\ UNCHANGED <<pc, ni>>
       ELSE LET pos == NormPos(tpls, 1, 1, 1)
            IN  /\ ti' = pos[1] /\ fi' = pos[2] /\ ni' = pos[3]
                /\ pc' = IF pos[1] > Len(tpls) THEN "generate" ELSE "convert"
    /\ UNCHANGED <<progVars, obsVars, config, outPkg, tpls, err, written, run, artifact1,
                   processed, runVars>>

\* one iteration of the innermost loop of convertTemplates
ConvertTemplate ==
    /\ pc = "convert"
    /\ LET f == tpls[ti].files[fi]
           name == names(f)[ni]
           r == makeFuncName(imports, idents, f.tplsFunc[name])
           fn == snakeToCamel(r.ret)
           tpls1 == [tpls EXCEPT ![ti].files[fi].tplsFunc[name] = fn]
       IN  /\ tpls' = tpls1
           /\ \E e \in {NoErr, "ConversionError"} :
                IF e # NoErr
                THEN /\ Fail("convert", e)
                     /\ idents' = r.idents
                     /\ UNCHANGED <<imports, builtinTexts, funcs, ti, fi, ni>>
                ELSE LET c == convertTplTree(imports, r.idents, builtinTexts, funcs, fn,
                                             f.tplsTree[name], tpls[ti].conf.DataConfiguration)
                         pos == NormPos(tpls1, ti, fi, ni + 1)
                     IN  /\ imports' = c.imports
                         /\ idents' = c.idents
                         /\ builtinTexts' = c.builtinTexts
                         /\ funcs' = c.funcs
                         /\ ti' = pos[1] /\ fi' = pos[2] /\ ni' = pos[3]
                         /\ pc' = IF pos[1] > Len(tpls) THEN "generate" ELSE "convert"
                         /\ processed' = Append(processed, Event("convert", NoErr))
                         /\ UNCHANGED err
    /\ UNCHANGED <<varName, obsVars, config, outPkg, written, run, artifact1, runVars>>

\* generateProgram and ioutil.WriteFile
GenerateAndWrite ==
    /\ pc = "generate"
    /\ \E mapOrder \in MapOrders(DOMAIN builtinTexts), e \in {NoErr, "WriteError"} :
         IF e # NoErr
         THEN /\ Fail("write", e)
              /\ UNCHANGED written
         ELSE /\ written' = generateProgram(outPkg, imports, builtinTexts, funcs, tpls,
                                            mapOrder)
              /\ pc' = "done"
              /\ processed' = Append(processed, Event("write", NoErr))
              /\ UNCHANGED err
    /\ UNCHANGED <<progVars, obsVars, config, outPkg, tpls, ti, fi, ni, run, artifact1,
                   runVars>>

\* the same Configuration is compiled again on a freshly constructed program
Recompile ==
    /\ pc = "done"
    /\ err = NoErr
    /\ run = 1
    /\ LET c == NewCompiledTemplatesProgram(CompileVarName)
       IN  /\ varName' = c.varName
           /\ imports' = c.imports
           /\ idents' = c.idents
           /\ builtinTexts' = c.builtinTexts
           /\ funcs' = c.funcs
    /\ UNCHANGED obsVars
    /\ artifact1' = written
    /\ run' = 2
    /\ pc' = "start"
    /\ outPkg' = <<>>
    /\ tpls' = <<>>
    /\ ti' = 1 /\ fi' = 1 /\ ni' = 1
    /\ written' = NoArtifact
    /\ processed' = <<>>
    /\ UNCHANGED <<config, err, runVars>>

----------------------------------------------------------------------------
(* The artifact is built and its init routine runs against the registry.   *)
(* An entry is the function registered under a name, the function that is  *)
(* its compiled implementation, and whether it is an attached variant.     *)

NilEntry == [fn |-> <<>>, impl |-> <<>>, attached |-> FALSE]

RegAdd(r, name, fn) == (name :> [fn |-> fn, impl |-> fn, attached |-> FALSE]) @@ r

RegSet(r, name, entry) == (name :> entry) @@ r

Compiled(x, y) == [fn |-> x.fn, impl |-> y.impl, attached |-> TRUE]

\* the Go compiler accepts the artifact: no variable of init is declared
\* twice and no function is declared twice
Builds(a) ==
    /\ \A i, j \in 1..Len(a.init) :
         (i # j /\ a.init[i].op = "MustGet" /\ a.init[j].op = "MustGet")
            => a.init[i].var # a.init[j].var
    /\ \A i, j \in 1..Len(a.funcs) : i # j => a.funcs[i] # a.funcs[j]

RunInit ==
    /\ pc = "done"
    /\ written.written
    /\ Builds(written)
    /\ pc' = "init"
    /\ ip' = 1
    /\ reg' = <<>>
    /\ locals' = <<>>
    /\ attachErrs' = {}
    /\ UNCHANGED <<progVars, obsVars, config, outPkg, tpls, ti, fi, ni, err, written, run,
                   artifact1, processed>>

AtStmt(op) ==
    /\ pc = "init"
    /\ ip <= Len(written.init)
    /\ written.init[ip].op = op

ExecAdd ==
    /\ AtStmt("Add")
    /\ reg' = RegAdd(reg, written.init[ip].name, written.init[ip].arg)
    /\ ip' = ip + 1
    /\ UNCHANGED <<progVars, obsVars, reqVars, locals, attachErrs>>

ExecMustGet ==
    /\ AtStmt("MustGet")
    /\ LET st == written.init[ip]
       IN  IF st.name \in DOMAIN reg
           THEN /\ locals' = (st.var :> reg[st.name]) @@ locals
                /\ ip' = ip + 1
                /\ UNCHANGED pc
           ELSE /\ pc' = "panic"
                /\ UNCHANGED <<locals, ip>>
    /\ UNCHANGED <<progVars, obsVars, config, outPkg, tpls, ti, fi, ni, err, written, run,
                   artifact1, processed, reg, attachErrs>>

\* varX, _ = varX.Compiled(varY): on an error the first result is the nil
\* entry or the receiver
ExecCompiled ==
    /\ AtStmt("Compiled")
    /\ LET st == written.init[ip]
           x == locals[st.var]
           y == locals[st.arg]
       IN  IF x = NilEntry
           THEN /\ pc' = "panic"
                /\ UNCHANGED <<locals, ip, attachErrs>>
           ELSE /\ \/ /\ locals' = (st.var :> Compiled(x, y)) @@ locals
                      /\ UNCHANGED attachErrs
                   \/ /\ \E v \in {NilEntry, x} : locals' = (st.var :> v) @@ locals
                      /\ attachErrs' = attachErrs \cup {ip}
                /\ ip' = ip + 1
                /\ UNCHANGED pc
    /\ UNCHANGED <<progVars, obsVars, config, outPkg, tpls, ti, fi, ni, err, written, run,
                   artifact1, processed, reg>>

ExecSet ==
    /\ AtStmt("Set")
    /\ reg' = RegSet(reg, written.init[ip].name, locals[written.init[ip].var])
    /\ ip' = ip + 1
    /\ UNCHANGED <<progVars, obsVars, reqVars, locals, attachErrs>>

InitReturn ==
    /\ pc = "init"
    /\ ip > Len(written.init)
    /\ pc' = "initdone"
    /\ UNCHANGED <<progVars, obsVars, config, outPkg, tpls, ti, fi, ni, err, written, run,
                   artifact1, processed, runVars>>

----------------------------------------------------------------------------

InitCompile ==
    /\ InitProgram(CompileVarName)
    /\ config \in Configs
    /\ outPkg = <<>>
    /\ tpls = <<>>
    /\ pc = "start"
    /\ ti = 1 /\ fi = 1 /\ ni = 1
    /\ err = NoErr
    /\ written = NoArtifact
    /\ run = 1
    /\ artifact1 = NoArtifact
    /\ processed = <<>>
    /\ reg = <<>>
    /\ locals = <<>>
    /\ ip = 1
    /\ attachErrs = {}

NextCompile ==
    \/ CompileStart
    \/ PrepareGlobFail
    \/ PrepareFile
    \/ PrepareNext
    \/ ConvertTemplate
    \/ GenerateAndWrite
    \/ Recompile
    \/ RunInit
    \/ ExecAdd
    \/ ExecMustGet
    \/ ExecCompiled
    \/ ExecSet
    \/ InitReturn

SpecCompile == InitCompile /\ [][NextCompile]_vars

----------------------------------------------------------------------------
(* Properties *)

ImportAlias(imp) == IF imp.Name = NilName THEN Base(Unquote(imp.Path)) ELSE imp.Name

ImportAliases == { ImportAlias(imports[i]) : i \in 1..Len(imports) }

NoDuplicates(s) == \A i, j \in 1..Len(s) : i # j => s[i] # s[j]

\* the function identifiers left in tplsFunc, in the order of convertTemplates
FuncIdents(T) ==
    Concat([i \in 1..Len(T) |->
      Concat([j \in 1..Len(T[i].files) |->
        [k \in 1..Len(names(T[i].files[j])) |->
            T[i].files[j].tplsFunc[names(T[i].files[j])[k]]]])])

Units(T) == UNION { Range(T[i].files) : i \in 1..Len(T) }

Compiled1 == pc = "done" /\ err = NoErr /\ written.written

\* C1: every function identifier emitted by a compile request is distinct
\* from every other emitted function identifier, from every import alias
\* and from every reserved identifier
C1_FuncIdentsUnique ==
    Compiled1 =>
        /\ NoDuplicates(FuncIdents(tpls))
        /\ \A x \in Range(FuncIdents(tpls)) :
              x \notin ImportAliases /\ x \notin Range(ReservedIdents(varName))

\* C2: after any sequence of addImport calls no two import records have
\* the same alias
C2_NoSharedAlias ==
    \A i, j \in 1..Len(imports) :
        i # j => ImportAlias(imports[i]) # ImportAlias(imports[j])

\* C3: compiling the same Configuration twice, each time on a fresh
\* program, writes the same artifact
C3_Deterministic ==
    (run = 2 /\ Compiled1) => written = artifact1

\* C4: two addBuiltintText calls return the same constant name exactly when
\* their texts are equal, and the artifact declares exactly one constant per
\* distinct text, under the name the calls returned
C4_LiteralSharing ==
    /\ \A p, q \in interned : (p[2] = q[2]) <=> (p[1] = q[1])
    /\ \A mapOrder \in MapOrders(DOMAIN builtinTexts) :
         LET decl == generateBuiltins(builtinTexts, mapOrder)
         IN  /\ \A p \in interned :
                  Cardinality({ i \in 1..Len(decl) : decl[i].text = p[1] }) = 1
             /\ \A i \in 1..Len(decl) : <<decl[i].text, decl[i].name>> \in interned
             /\ NoDuplicates([i \in 1..Len(decl) |-> decl[i].name])

C4_Witness ==
    /\ last.op = "addBuiltintText"
    /\ last.ret = <<"b", "u", "i", "l", "t", "i", "n", "0">>
    /\ Cardinality(interned) = 2
    /\ ncalls = 3

\* C5: an inline TemplateConfiguration is resolved into exactly one unit
\* named after the inline name, whose templates are all registered
C5_InlineUnit ==
    Compiled1 =>
        \A k \in 1..Len(tpls) :
            tpls[k].conf.TemplateName # <<>> =>
                /\ Len(tpls[k].files) = 1
                /\ tpls[k].files[1].name = tpls[k].conf.TemplateName
                /\ \A n \in DOMAIN tpls[k].conf.TemplateContent :
                     \E i \in 1..Len(written.init) :
                        written.init[i].op = "Add" /\ written.init[i].name = n

\* C6: when the attachment to a main entry fails, the registry slot of the
\* main name still holds the entry it held before the attachment
C6_FailedAttachKeepsEntry ==
    [][(AtStmt("Set") /\ (ip - 1) \in attachErrs) => reg' = reg]_vars

\* C7: after init has run with every Compiled succeeding, the main name of
\* every unit that defines nested templates resolves to the attached entry
\* made by Compiled from the nested entry, not to the registered main function
C7_MainResolvesToAttached ==
    (pc = "initdone" /\ attachErrs = {}) =>
        \A f \in Units(tpls) :
            f.definedTemplates # <<>> =>
                LET e == reg[f.name]
                    nested == f.definedTemplates[Len(f.definedTemplates)]
                IN  /\ e.attached
                    /\ e.impl = reg[nested].impl
                    /\ f.name \in DOMAIN f.tplsFunc => e.impl # f.tplsFunc[f.name]

C7_Witness ==
    /\ pc = "initdone"
    /\ attachErrs = {}
    /\ \E f \in Units(tpls) : Len(f.definedTemplates) = 2 /\ reg[f.name].attached

\* C8: makeFuncName returns baseName if it is not reserved, else
\* fn<k>baseName for the least k >= 0 that is not reserved; the name was not
\* reserved before the call and is reserved after it
C8_MakeFuncNameLeast ==
    last.op = "makeFuncName" =>
        LET R == Range(last.idents)
                 \cup ({ last.imports[i].Name : i \in 1..Len(last.imports) } \ {NilName})
            Fn(k) == <<"f", "n">> \o Itoa(k) \o last.arg
        IN  /\ last.ret \notin R
            /\ last.ret \in Range(idents)
            /\ last.arg \notin R => last.ret = last.arg
            /\ last.arg \in R =>
                  \E k \in 0..Cardinality(R) :
                     /\ last.ret = Fn(k)
                     /\ \A j \in 0..(k - 1) : Fn(j) \in R

C8_Witness ==
    /\ last.op = "makeFuncName"
    /\ last.arg = <<"t">>
    /\ last.ret = <<"f", "n", "1", "t">>

\* C9: addImport of a path already seen returns the alias of the first call
\* and leaves the import records and the reserved identifiers unchanged
C9_AddImportIdempotent ==
    (last.op = "addImport" /\ Seen(last.imports, last.arg)) =>
        /\ last.ret = firstAlias[last.arg]
        /\ imports = last.imports
        /\ idents = last.idents

C9_Witness ==
    /\ last.op = "addImport"
    /\ Seen(last.imports, last.arg)
    /\ last.ret = <<"a", "l", "i", "a", "s", "d", "a", "t", "a">>

\* C10: a compile request stops at its first failure (package lookup, glob,
\* file read, parse or node conversion): no step is processed after a failed
\* one, CompileAndWrite returns that error and no artifact is written
C10_FailFast ==
    /\ \A i \in 1..(Len(processed) - 1) : processed[i].ok
    /\ err # NoErr => processed # <<>> /\ ~processed[Len(processed)].ok
    /\ (processed # <<>> /\ ~processed[Len(processed)].ok) =>
          /\ pc = "done"
          /\ err = processed[Len(processed)].err
          /\ processed[Len(processed)].step # "write" => ~written.written

C10_Witness ==
    /\ err = "ConversionError"
    /\ pc = "done"
    /\ NormPos(tpls, ti, fi, ni + 1)[1] <= Len(tpls)

\* filepath.ErrBadPattern: a character class that is never closed
BadPattern(p) ==
    \E i \in 1..Len(p) : p[i] = "[" /\ ~(\E j \in (i + 1)..Len(p) : p[j] = "]")

\* the entries whose prepare has returned nil
Prepared(k) ==
    /\ k \in 1..Len(tpls)
    /\ \/ pc = "prepare" /\ k < ti
       \/ pc \in {"convert", "generate"}
       \/ Compiled1

\* C11: an entry whose glob is well-formed and matches no file is resolved
\* into an empty unit list without an error; resolution fails with a
\* discovery error only when the pattern is malformed
C11_EmptyGlobIsNoError ==
    /\ \A k \in 1..Len(tpls) :
         (/\ Prepared(k)
          /\ tpls[k].conf.TemplatesPath # <<>>
          /\ Glob(tpls[k].conf.TemplatesPath).matches = <<>>)
            => tpls[k].files = <<>>
    /\ (pc = "done" /\ err \in {"DiscoveryError", "ReadError", "ParseError"}) =>
          LET p == tpls[ti].conf.TemplatesPath
          IN  /\ err = "DiscoveryError" <=> BadPattern(p)
              /\ ~BadPattern(p) => Glob(p).matches # <<>>

C11_Witness ==
    /\ Compiled1
    /\ \E k \in 1..Len(tpls) :
         tpls[k].conf.TemplatesPath = PatZ /\ tpls[k].files = <<>>

\* C12: every name fetched with MustGet by an attachment step of init has
\* been bound by an Add statement that comes earlier in init
C12_FetchedNamesRegistered ==
    Compiled1 =>
        \A i \in 1..Len(written.init) :
            written.init[i].op = "MustGet" =>
                \E j \in 1..(i - 1) :
                    /\ written.init[j].op = "Add"
                    /\ written.init[j].name = written.init[i].name

\* C13: the literal constants are declared in the order in which their
\* texts were first interned: builtin0, builtin1, ...
C13_BuiltinsInInsertionOrder ==
    Compiled1 =>
        \A i \in 1..Len(written.builtins) :
            written.builtins[i].name =
                <<"b", "u", "i", "l", "t", "i", "n">> \o Itoa(i - 1)

\* C15: the local variables declared by the attachment steps of init are
\* pairwise distinct
C15_InitVarsDistinct ==
    Compiled1 =>
        LET decl == { i \in 1..Len(written.init) : written.init[i].op = "MustGet" }
        IN  \A i, j \in decl : i # j => written.init[i].var # written.init[j].var

----------------------------------------------------------------------------
(* The loader on arbitrary unit and template names *)

MaxNameLen == 2    \* characters of a unit name or a template name

NameChars == {"a", ".", "-", "/", " "}

NamesOver(chars) == UNION { [1..n -> chars] : n \in 1..MaxNameLen }

\* a file name has no path separator and is neither "." nor ".."
UnitNames == NamesOver(NameChars \ {"/"}) \ { <<".">>, <<".", ".">> }

TplNames == NamesOver(NameChars)

\* one file t/<unit> whose content declares the main template and the
\* nested template tplName is loaded
LoadSource(unit, tplName) ==
    /\ pc = "loader"
    /\ tpls = <<>>
    /\ LET src == [path  |-> <<"t", "/">> \o unit,
                   trees |-> (unit :> <<>>) @@ (tplName :> <<>>)]
       IN  \E treeOrder \in MapOrders(DOMAIN src.trees) :
              tpls' = << [conf  |-> GlobConf(src.path),
                          files |-> <<makeTemplateFileToCompileFromFile(src, treeOrder)>>] >>
    /\ UNCHANGED <<progVars, obsVars, config, outPkg, pc, ti, fi, ni, err, written, run,
                   artifact1, processed, runVars>>

InitLoader ==
    /\ InitProgram(CompileVarName)
    /\ config = <<>>
    /\ outPkg = <<>>
    /\ tpls = <<>>
    /\ pc = "loader"
    /\ ti = 1 /\ fi = 1 /\ ni = 1
    /\ err = NoErr
    /\ written = NoArtifact
    /\ run = 1
    /\ artifact1 = NoArtifact
    /\ processed = <<>>
    /\ reg = <<>>
    /\ locals = <<>>
    /\ ip = 1
    /\ attachErrs = {}

NextLoader == \E unit \in UnitNames, tplName \in TplNames : LoadSource(unit, tplName)

SpecLoader == InitLoader /\ [][NextLoader]_vars

\* the characters of a Go identifier over the alphabet of the model
IdentChar(ch) ==
    \/ ch = "_"
    \/ \E i \in 1..Len(LowerLetters) : ch = LowerLetters[i] \/ ch = UpperLetters[i]
    \/ \E i \in 1..Len(Digits) : ch = Digits[i]

\* C14: the provisional function identifier the loader assigns to a
\* template name contains only identifier-safe characters
C14_ProvisionalNameIsIdentifier ==
    pc = "loader" =>
        \A f \in Units(tpls) :
            \A n \in DOMAIN f.tplsFunc :
                \A k \in 1..Len(f.tplsFunc[n]) : IdentChar(f.tplsFunc[n][k])

====
